---- MODULE Spec2Model ----
(***************************************************************************)
(* A model of composable_paxos.py: the Proposer, Acceptor and Learner      *)
(* state machines of single-decree Paxos, each alone under arbitrary       *)
(* messages, and composed over a lossy, duplicating, reordering network.   *)
(*                                                                         *)
(* Encoding of Python values:                                              *)
(*   ProposalID(number, uid)  <<number, uid>>                              *)
(*   None (a proposal id)     None == <<-1, -1>>                           *)
(*   None (a value)           NoneVal == 0, real values are 1..NValues     *)
(*   None (a set of uids)     NoneSet == {-1}, uids are >= 1               *)
(*   None (a message)         NoMsg                                        *)
(*   dict                     a function on the set of its keys            *)
(* Comparisons against None follow the interpreter the source is written   *)
(* for (Python 2): None orders below every tuple.                          *)
(***************************************************************************)
EXTENDS Integers, FiniteSets, Sequences, TLC

\* ------------------------------------------------------------- bounds
NAcceptors == 3
NProposers == 2
NLearners == 2
NValues == 2
MaxNumber == 2

AcceptorUids == 1..NAcceptors
ProposerUids == 1..NProposers
LearnerUids == 1..NLearners
Values == 1..NValues

\* quorum_size as the embedding supplies it: floor(N/2)+1
QuorumSize == (NAcceptors \div 2) + 1

\* the protocol run: the number of its Acceptors, and of the rounds each of
\* its Proposers starts
NPaxosAcceptors == 2
MaxRound == 1

PaxosAcceptorUids == 1..NPaxosAcceptors
PaxosQuorumSize == (NPaxosAcceptors \div 2) + 1

\* ------------------------------------------------------------- values
None == <<-1, -1>>
NoneVal == 0
NoneSet == {-1}

ProposalID(number, uid) == <<number, uid>>

\* tuple comparison of two present proposal ids
TupleLT(a, b) == a[1] < b[1] \/ (a[1] = b[1] /\ a[2] < b[2])

\* a > b, a >= b, a <= b on optional proposal ids
PidGT(a, b) == IF a = None THEN FALSE ELSE IF b = None THEN TRUE ELSE TupleLT(b, a)
PidGE(a, b) == a = b \/ PidGT(a, b)
PidLE(a, b) == ~PidGT(a, b)

\* ------------------------------------------------------------- messages
NoMsg == [type |-> "None"]

Prepare(from_uid, proposal_id) ==
    [type |-> "Prepare", from_uid |-> from_uid, proposal_id |-> proposal_id]

Nack(from_uid, proposer_uid, proposal_id, promised_proposal_id) ==
    [type |-> "Nack", from_uid |-> from_uid, proposer_uid |-> proposer_uid,
     proposal_id |-> proposal_id, promised_proposal_id |-> promised_proposal_id]

Promise(from_uid, proposer_uid, proposal_id, last_accepted_id, last_accepted_value) ==
    [type |-> "Promise", from_uid |-> from_uid, proposer_uid |-> proposer_uid,
     proposal_id |-> proposal_id, last_accepted_id |-> last_accepted_id,
     last_accepted_value |-> last_accepted_value]

Accept(from_uid, proposal_id, proposal_value) ==
    [type |-> "Accept", from_uid |-> from_uid, proposal_id |-> proposal_id,
     proposal_value |-> proposal_value]

Accepted(from_uid, proposal_id, proposal_value) ==
    [type |-> "Accepted", from_uid |-> from_uid, proposal_id |-> proposal_id,
     proposal_value |-> proposal_value]

Resolution(from_uid, value) ==
    [type |-> "Resolution", from_uid |-> from_uid, value |-> value]

\* ------------------------------------------------------------- Acceptor
\* Acceptor.__init__
AcceptorInit(network_uid, promised_id, accepted_id, accepted_value) ==
    [network_uid |-> network_uid, promised_id |-> promised_id,
     accepted_id |-> accepted_id, accepted_value |-> accepted_value]

\* a call's outcome: the object after the call, the message returned, the
\* exception raised ("" when the call returned)
Outcome(self, out, exc) == [self |-> self, out |-> out, exc |-> exc]

\* mutant: a Prepare below the promise is promised all the same
receive_prepare_NoGuard(self, msg) ==
    Outcome([self EXCEPT !.promised_id = msg.proposal_id],
            Promise(self.network_uid, msg.from_uid, msg.proposal_id,
                    self.accepted_id, self.accepted_value), "")

receive_prepare(self, msg) ==
    IF PidGE(msg.proposal_id, self.promised_id)
    THEN Outcome([self EXCEPT !.promised_id = msg.proposal_id],
                 Promise(self.network_uid, msg.from_uid, msg.proposal_id,
                         self.accepted_id, self.accepted_value), "")
    ELSE Outcome(self, Nack(self.network_uid, msg.from_uid, msg.proposal_id,
                            self.promised_id), "")

\* mutant: an Accept below the promise is accepted all the same
receive_accept_NoGuard(self, msg) ==
    Outcome([self EXCEPT !.promised_id = msg.proposal_id,
                         !.accepted_id = msg.proposal_id,
                         !.accepted_value = msg.proposal_value],
            Accepted(self.network_uid, msg.proposal_id, msg.proposal_value), "")

receive_accept(self, msg) ==
    IF PidGE(msg.proposal_id, self.promised_id)
    THEN Outcome([self EXCEPT !.promised_id = msg.proposal_id,
                              !.accepted_id = msg.proposal_id,
                              !.accepted_value = msg.proposal_value],
                 Accepted(self.network_uid, msg.proposal_id, msg.proposal_value), "")
    ELSE Outcome(self, Nack(self.network_uid, msg.from_uid, msg.proposal_id,
                            self.promised_id), "")

\* ------------------------------------------------------------- Proposer
\* Proposer class attributes and Proposer.__init__
ProposerInit(network_uid, quorum_size) ==
    [network_uid |-> network_uid, quorum_size |-> quorum_size,
     leader |-> FALSE, proposed_value |-> NoneVal,
     proposal_id |-> ProposalID(0, network_uid),
     highest_proposal_id |-> ProposalID(0, network_uid),
     highest_accepted_id |-> None,
     promises_received |-> NoneSet, nacks_received |-> NoneSet,
     current_prepare_msg |-> NoMsg, current_accept_msg |-> NoMsg]

\* mutant: the Proposer keeps and sends another value than the one passed
propose_value_Other(self, value) ==
    IF self.proposed_value = NoneVal
    THEN IF self.leader
         THEN LET m == Accept(self.network_uid, self.proposal_id,
                              (value % NValues) + 1)
              IN Outcome([self EXCEPT !.proposed_value = (value % NValues) + 1,
                                      !.current_accept_msg = m], m, "")
         ELSE Outcome([self EXCEPT !.proposed_value = (value % NValues) + 1],
                      NoMsg, "")
    ELSE Outcome(self, NoMsg, "")

\* mutant: the value is taken also when one is present
propose_value_Always(self, value) ==
    IF self.leader
    THEN LET m == Accept(self.network_uid, self.proposal_id, value)
         IN Outcome([self EXCEPT !.proposed_value = value,
                                 !.current_accept_msg = m], m, "")
    ELSE Outcome([self EXCEPT !.proposed_value = value], NoMsg, "")

propose_value(self, value) ==
    IF self.proposed_value = NoneVal
    THEN IF self.leader
         THEN LET m == Accept(self.network_uid, self.proposal_id, value)
              IN Outcome([self EXCEPT !.proposed_value = value,
                                      !.current_accept_msg = m], m, "")
         ELSE Outcome([self EXCEPT !.proposed_value = value], NoMsg, "")
    ELSE Outcome(self, NoMsg, "")

\* mutant: the new round reuses the number of the highest proposal seen
prepare_SameNumber(self) ==
    LET pid == ProposalID(self.highest_proposal_id[1], self.network_uid)
        m == Prepare(self.network_uid, pid)
    IN Outcome([self EXCEPT !.leader = FALSE,
                            !.promises_received = {},
                            !.nacks_received = {},
                            !.proposal_id = pid,
                            !.highest_proposal_id = pid,
                            !.current_prepare_msg = m], m, "")

prepare(self) ==
    LET pid == ProposalID(self.highest_proposal_id[1] + 1, self.network_uid)
        m == Prepare(self.network_uid, pid)
    IN Outcome([self EXCEPT !.leader = FALSE,
                            !.promises_received = {},
                            !.nacks_received = {},
                            !.proposal_id = pid,
                            !.highest_proposal_id = pid,
                            !.current_prepare_msg = m], m, "")

\* returns nothing: the definition is the object after the call
observe_proposal(self, proposal_id) ==
    IF PidGT(proposal_id, self.highest_proposal_id)
    THEN [self EXCEPT !.highest_proposal_id = proposal_id]
    ELSE self

\* mutant: a Nack for any proposal id is counted
receive_nack_AnyRound(self, msg) ==
    LET s1 == observe_proposal(self, msg.promised_proposal_id)
    IN IF s1.nacks_received # NoneSet
       THEN LET s2 == [s1 EXCEPT !.nacks_received = @ \cup {msg.from_uid}]
            IN IF Cardinality(s2.nacks_received) = s2.quorum_size
               THEN prepare(s2)
               ELSE Outcome(s2, NoMsg, "")
       ELSE Outcome(s1, NoMsg, "")

receive_nack(self, msg) ==
    LET s1 == observe_proposal(self, msg.promised_proposal_id)
    IN IF msg.proposal_id = s1.proposal_id /\ s1.nacks_received # NoneSet
       THEN LET s2 == [s1 EXCEPT !.nacks_received = @ \cup {msg.from_uid}]
            IN IF Cardinality(s2.nacks_received) = s2.quorum_size
               THEN prepare(s2)
               ELSE Outcome(s2, NoMsg, "")
       ELSE Outcome(s1, NoMsg, "")

\* mutant: a Promise for any proposal id is counted
receive_promise_AnyRound(self, msg) ==
    LET s1 == observe_proposal(self, msg.proposal_id)
    IN IF ~s1.leader
       THEN IF s1.promises_received = NoneSet
            THEN Outcome(s1, NoMsg, "TypeError")
            ELSE IF msg.from_uid \notin s1.promises_received
            THEN LET s2 == [s1 EXCEPT !.promises_received = @ \cup {msg.from_uid}]
                     s3 == IF PidGT(msg.last_accepted_id, s2.highest_accepted_id)
                           THEN [s2 EXCEPT
                                   !.highest_accepted_id = msg.last_accepted_id,
                                   !.proposed_value =
                                       IF msg.last_accepted_value # NoneVal
                                       THEN msg.last_accepted_value ELSE @]
                           ELSE s2
                 IN IF Cardinality(s3.promises_received) = s3.quorum_size
                    THEN IF s3.proposed_value # NoneVal
                         THEN LET m == Accept(s3.network_uid, s3.proposal_id,
                                              s3.proposed_value)
                              IN Outcome([s3 EXCEPT !.leader = TRUE,
                                                    !.current_accept_msg = m], m, "")
                         ELSE Outcome([s3 EXCEPT !.leader = TRUE], NoMsg, "")
                    ELSE Outcome(s3, NoMsg, "")
            ELSE Outcome(s1, NoMsg, "")
       ELSE Outcome(s1, NoMsg, "")

\* mutant: the value a Promise reports as accepted is not adopted
receive_promise_KeepValue(self, msg) ==
    LET s1 == observe_proposal(self, msg.proposal_id)
    IN IF ~s1.leader /\ msg.proposal_id = s1.proposal_id
       THEN IF s1.promises_received = NoneSet
            THEN Outcome(s1, NoMsg, "TypeError")
            ELSE IF msg.from_uid \notin s1.promises_received
            THEN LET s2 == [s1 EXCEPT !.promises_received = @ \cup {msg.from_uid}]
                     s3 == IF PidGT(msg.last_accepted_id, s2.highest_accepted_id)
                           THEN [s2 EXCEPT
                                   !.highest_accepted_id = msg.last_accepted_id]
                           ELSE s2
                 IN IF Cardinality(s3.promises_received) = s3.quorum_size
                    THEN IF s3.proposed_value # NoneVal
                         THEN LET m == Accept(s3.network_uid, s3.proposal_id,
                                              s3.proposed_value)
                              IN Outcome([s3 EXCEPT !.leader = TRUE,
                                                    !.current_accept_msg = m], m, "")
                         ELSE Outcome([s3 EXCEPT !.leader = TRUE], NoMsg, "")
                    ELSE Outcome(s3, NoMsg, "")
            ELSE Outcome(s1, NoMsg, "")
       ELSE Outcome(s1, NoMsg, "")

\* receive_promise that keeps the Accept of a new leader to itself
receive_promise_Silent(self, msg) ==
    LET s1 == observe_proposal(self, msg.proposal_id)
    IN IF ~s1.leader /\ msg.proposal_id = s1.proposal_id
       THEN IF s1.promises_received = NoneSet
            THEN Outcome(s1, NoMsg, "TypeError")
            ELSE IF msg.from_uid \notin s1.promises_received
            THEN LET s2 == [s1 EXCEPT !.promises_received = @ \cup {msg.from_uid}]
                     s3 == IF PidGT(msg.last_accepted_id, s2.highest_accepted_id)
                           THEN [s2 EXCEPT
                                   !.highest_accepted_id = msg.last_accepted_id,
                                   !.proposed_value =
                                       IF msg.last_accepted_value # NoneVal
                                       THEN msg.last_accepted_value ELSE @]
                           ELSE s2
                 IN IF Cardinality(s3.promises_received) = s3.quorum_size
                    THEN IF s3.proposed_value # NoneVal
                         THEN Outcome([s3 EXCEPT !.leader = TRUE], NoMsg, "")
                         ELSE Outcome([s3 EXCEPT !.leader = TRUE], NoMsg, "")
                    ELSE Outcome(s3, NoMsg, "")
            ELSE Outcome(s1, NoMsg, "")
       ELSE Outcome(s1, NoMsg, "")

\* "msg.from_uid not in self.promises_received" raises TypeError while
\* promises_received is still None (no prepare() yet)
receive_promise(self, msg) ==
    LET s1 == observe_proposal(self, msg.proposal_id)
    IN IF ~s1.leader /\ msg.proposal_id = s1.proposal_id
       THEN IF s1.promises_received = NoneSet
            THEN Outcome(s1, NoMsg, "TypeError")
            ELSE IF msg.from_uid \notin s1.promises_received
            THEN LET s2 == [s1 EXCEPT !.promises_received = @ \cup {msg.from_uid}]
                     s3 == IF PidGT(msg.last_accepted_id, s2.highest_accepted_id)
                           THEN [s2 EXCEPT
                                   !.highest_accepted_id = msg.last_accepted_id,
                                   !.proposed_value =
                                       IF msg.last_accepted_value # NoneVal
                                       THEN msg.last_accepted_value ELSE @]
                           ELSE s2
                 IN IF Cardinality(s3.promises_received) = s3.quorum_size
                    THEN IF s3.proposed_value # NoneVal
                         THEN LET m == Accept(s3.network_uid, s3.proposal_id,
                                              s3.proposed_value)
                              IN Outcome([s3 EXCEPT !.leader = TRUE,
                                                    !.current_accept_msg = m], m, "")
                         ELSE Outcome([s3 EXCEPT !.leader = TRUE], NoMsg, "")
                    ELSE Outcome(s3, NoMsg, "")
            ELSE Outcome(s1, NoMsg, "")
       ELSE Outcome(s1, NoMsg, "")

\* ------------------------------------------------------------- Learner
\* dict helpers
Put(d, k, v) == [x \in (DOMAIN d) \cup {k} |-> IF x = k THEN v ELSE d[x]]
Del(d, k) == [x \in (DOMAIN d) \ {k} |-> d[x]]
EmptyDict == [x \in {} |-> 0]

\* Learner.ProposalStatus.__init__
ProposalStatus(value) ==
    [accept_count |-> 0, retain_count |-> 0, acceptors |-> {}, value |-> value]

\* proposals = None and acceptors = None, as left by a resolution
NoneProposals == [p \in {None} |-> ProposalStatus(NoneVal)]
NoneAcceptors == [u \in {-1} |-> None]

\* Learner.__init__
LearnerInit(network_uid, quorum_size) ==
    [network_uid |-> network_uid, quorum_size |-> quorum_size,
     proposals |-> EmptyDict, acceptors |-> EmptyDict,
     final_value |-> NoneVal, final_acceptors |-> NoneSet,
     final_proposal_id |-> None]

\* self.acceptors.get(msg.from_uid)
LastPn(self, from_uid) ==
    IF from_uid \in DOMAIN self.acceptors THEN self.acceptors[from_uid] ELSE None

\* "if last_pn is not None: ..." on a vote that is in ps.acceptors
\* mutant: the previous vote of the acceptor is not revoked
RevokeVote_Keep(proposals, from_uid, last_pn) == proposals

\* mutant: an entry nobody retains is kept
RevokeVote_NoDelete(proposals, from_uid, last_pn) ==
    Put(proposals, last_pn,
        [proposals[last_pn] EXCEPT !.retain_count = @ - 1,
                                   !.acceptors = @ \ {from_uid}])

RevokeVote(proposals, from_uid, last_pn) ==
    LET ps == [proposals[last_pn] EXCEPT !.retain_count = @ - 1,
                                         !.acceptors = @ \ {from_uid}]
    IN IF ps.retain_count = 0
       THEN Del(proposals, last_pn)
       ELSE Put(proposals, last_pn, ps)

\* the unresolved branch, after the stale-message test
receive_accepted_count(self, msg, last_pn) ==
    LET acc1 == Put(self.acceptors, msg.from_uid, msg.proposal_id)
        props1 == IF last_pn # None
                  THEN RevokeVote(self.proposals, msg.from_uid, last_pn)
                  ELSE self.proposals
        props2 == IF msg.proposal_id \notin DOMAIN props1
                  THEN Put(props1, msg.proposal_id, ProposalStatus(msg.proposal_value))
                  ELSE props1
        ps == props2[msg.proposal_id]
        ps1 == [ps EXCEPT !.accept_count = @ + 1, !.retain_count = @ + 1,
                          !.acceptors = @ \cup {msg.from_uid}]
    IN IF last_pn # None /\ msg.from_uid \notin self.proposals[last_pn].acceptors
       THEN \* set.remove of a missing element, after the decrement
            Outcome([self EXCEPT !.acceptors = acc1,
                                 !.proposals = Put(self.proposals, last_pn,
                                     [self.proposals[last_pn] EXCEPT
                                         !.retain_count = @ - 1])],
                    NoMsg, "KeyError")
       ELSE IF msg.proposal_value # ps.value
       THEN Outcome([self EXCEPT !.acceptors = acc1, !.proposals = props2],
                    NoMsg, "AssertionError")
       ELSE IF ps1.accept_count = self.quorum_size
       THEN Outcome([self EXCEPT !.final_proposal_id = msg.proposal_id,
                                 !.final_value = msg.proposal_value,
                                 !.final_acceptors = ps1.acceptors,
                                 !.proposals = NoneProposals,
                                 !.acceptors = NoneAcceptors],
                    Resolution(self.network_uid, msg.proposal_value), "")
       ELSE Outcome([self EXCEPT !.acceptors = acc1,
                                 !.proposals = Put(props2, msg.proposal_id, ps1)],
                    NoMsg, "")

\* mutant: once resolved, every sender is added to final_acceptors
receive_accepted_AddAlways(self, msg) ==
    IF self.final_value # NoneVal
    THEN Outcome([self EXCEPT !.final_acceptors = @ \cup {msg.from_uid}],
                 Resolution(self.network_uid, self.final_value), "")
    ELSE IF PidLE(msg.proposal_id, LastPn(self, msg.from_uid))
         THEN Outcome(self, NoMsg, "")
         ELSE receive_accepted_count(self, msg, LastPn(self, msg.from_uid))

\* mutant: only a strictly older message is stale
receive_accepted_StaleStrict(self, msg) ==
    IF self.final_value # NoneVal
    THEN Outcome(
           IF PidGE(msg.proposal_id, self.final_proposal_id)
              /\ msg.proposal_value = self.final_value
           THEN [self EXCEPT !.final_acceptors = @ \cup {msg.from_uid}]
           ELSE self,
           Resolution(self.network_uid, self.final_value), "")
    ELSE IF PidGT(LastPn(self, msg.from_uid), msg.proposal_id)
         THEN Outcome(self, NoMsg, "")
         ELSE receive_accepted_count(self, msg, LastPn(self, msg.from_uid))

receive_accepted(self, msg) ==
    IF self.final_value # NoneVal
    THEN Outcome(
           IF PidGE(msg.proposal_id, self.final_proposal_id)
              /\ msg.proposal_value = self.final_value
           THEN [self EXCEPT !.final_acceptors = @ \cup {msg.from_uid}]
           ELSE self,
           Resolution(self.network_uid, self.final_value), "")
    ELSE IF PidLE(msg.proposal_id, LastPn(self, msg.from_uid))
         THEN Outcome(self, NoMsg, "")
         ELSE receive_accepted_count(self, msg, LastPn(self, msg.from_uid))

\* ------------------------------------------------------------- PaxosInstance
\* PaxosInstance.__init__: the three __init__ on one object
PaxosInstanceInit(network_uid, quorum_size, promised_id, accepted_id, accepted_value) ==
    LearnerInit(network_uid, quorum_size)
    @@ AcceptorInit(network_uid, promised_id, accepted_id, accepted_value)
    @@ ProposerInit(network_uid, quorum_size)

\* mutant: the composite hands a Prepare to the Acceptor unobserved
PaxosInstance_receive_prepare_Unobserved(self, msg) == receive_prepare(self, msg)

PaxosInstance_receive_prepare(self, msg) ==
    receive_prepare(observe_proposal(self, msg.proposal_id), msg)

PaxosInstance_receive_accept(self, msg) ==
    receive_accept(observe_proposal(self, msg.proposal_id), msg)

\* ------------------------------------------------------------- MessageHandler
\* 'receive_' + msg.__class__.__name__.lower()
HandlerName(msg) ==
    CASE msg.type = "Prepare" -> "receive_prepare"
      [] msg.type = "Nack" -> "receive_nack"
      [] msg.type = "Promise" -> "receive_promise"
      [] msg.type = "Accept" -> "receive_accept"
      [] msg.type = "Accepted" -> "receive_accepted"
      [] msg.type = "Resolution" -> "receive_resolution"

\* the receive_* attributes of each class
Handlers(class) ==
    CASE class = "Proposer" -> {"receive_nack", "receive_promise"}
      [] class = "Acceptor" -> {"receive_prepare", "receive_accept"}
      [] class = "Learner" -> {"receive_accepted"}
      [] class = "PaxosInstance" ->
            {"receive_nack", "receive_promise", "receive_prepare",
             "receive_accept", "receive_accepted"}

\* mutant: a message without a handler is dropped
receive_Drop(class, self, msg) ==
    IF HandlerName(msg) \notin Handlers(class)
    THEN Outcome(self, NoMsg, "")
    ELSE CASE msg.type = "Nack" -> receive_nack(self, msg)
           [] msg.type = "Promise" -> receive_promise(self, msg)
           [] msg.type = "Accepted" -> receive_accepted(self, msg)
           [] msg.type = "Prepare" ->
                IF class = "PaxosInstance"
                THEN PaxosInstance_receive_prepare(self, msg)
                ELSE receive_prepare(self, msg)
           [] msg.type = "Accept" ->
                IF class = "PaxosInstance"
                THEN PaxosInstance_receive_accept(self, msg)
                ELSE receive_accept(self, msg)

\* MessageHandler.receive on an object of the class
receive(class, self, msg) ==
    IF HandlerName(msg) \notin Handlers(class)
    THEN Outcome(self, NoMsg, "InvalidMessageError")
    ELSE CASE msg.type = "Nack" -> receive_nack(self, msg)
           [] msg.type = "Promise" -> receive_promise(self, msg)
           [] msg.type = "Accepted" -> receive_accepted(self, msg)
           [] msg.type = "Prepare" ->
                IF class = "PaxosInstance"
                THEN PaxosInstance_receive_prepare(self, msg)
                ELSE receive_prepare(self, msg)
           [] msg.type = "Accept" ->
                IF class = "PaxosInstance"
                THEN PaxosInstance_receive_accept(self, msg)
                ELSE receive_accept(self, msg)

\* ------------------------------------------------------------- state
VARIABLES
    prop,           \* a Proposer driven by arbitrary calls
    acc,            \* an Acceptor driven by arbitrary messages
    lrn,            \* a Learner driven by arbitrary messages
    node,           \* a PaxosInstance driven by arbitrary messages
    op,             \* the last method called on prop, acc or lrn
    arg,            \* its argument, where a claim reads it (NoMsg elsewhere)
    ret,            \* the message it returned (NoMsg: nothing)
    exc,            \* the exception it raised ("": none)
    observedMax,    \* prop: the largest proposal id passed to observe_proposal
    lastPrepared,   \* prop: the proposal id of the last Prepare produced
    counted,        \* prop: the Promises counted since the last prepare()
    carriers,       \* lrn: proposal id -> from_uids of the Accepteds delivered
    carried,        \* prop, lrn: proposal id -> the value sent under it
    reported,       \* prop: acceptor -> the last_accepted_id of its last counted Promise
    proposerOf,     \* the protocol: uid -> Proposer
    acceptorOf,     \* the protocol: uid -> Acceptor
    learnerOf,      \* the protocol: uid -> Learner
    network,        \* the protocol: every message sent so far
    proposedValues  \* the protocol: the values passed to propose_value

callVars == <<op, arg, ret, exc>>
propVars == <<prop, observedMax, lastPrepared, counted>>
histVars == <<carriers, carried, reported>>
lrnVars == <<lrn, carriers, carried, reported>>
protocolVars == <<node, proposerOf, acceptorOf, learnerOf, network, proposedValues>>
vars == <<prop, acc, lrn, node, op, arg, ret, exc, observedMax, lastPrepared, counted,
          carriers, carried, reported, proposerOf, acceptorOf, learnerOf, network, proposedValues>>

\* the uid of the role driven alone: not one of the protocol's Proposers,
\* whose proposal ids it is shown
Uid == NProposers + 1

\* proposal ids on the wire
Pids == (1..MaxNumber) \X ProposerUids

\* proposal ids a Proposer may be shown, and its own: (0, uid) is the id it is
\* built with
RoundPids == (0..MaxNumber) \X (ProposerUids \cup {Uid})

\* The Prepare that answers Nacks naming a promise of number MaxNumber has the
\* next number.
MaxOwnNumber == MaxNumber + 1
OwnPids == (0..MaxOwnNumber) \X {Uid}

Init ==
    /\ prop = ProposerInit(Uid, QuorumSize)
    /\ acc = AcceptorInit(Uid, None, None, NoneVal)
    /\ lrn = LearnerInit(Uid, QuorumSize)
    /\ node = PaxosInstanceInit(Uid, QuorumSize, None, None, NoneVal)
    /\ op = "init"
    /\ arg = NoMsg
    /\ ret = NoMsg
    /\ exc = ""
    /\ observedMax = None
    /\ lastPrepared = None
    /\ counted = {}
    /\ carriers = [p \in Pids |-> {}]
    /\ carried = [p \in Pids \cup RoundPids \cup OwnPids |-> NoneVal]
    /\ reported = [a \in AcceptorUids |-> None]
    /\ proposerOf = [u \in ProposerUids |-> ProposerInit(u, PaxosQuorumSize)]
    /\ acceptorOf = [u \in PaxosAcceptorUids |-> AcceptorInit(u, None, None, NoneVal)]
    /\ learnerOf = [u \in LearnerUids |-> LearnerInit(u, PaxosQuorumSize)]
    /\ network = {}
    /\ proposedValues = {}

\* a call on a role driven alone: what it was, and how it ended
Called(name, a, r) ==
    /\ op' = name
    /\ arg' = a
    /\ ret' = r.out
    /\ exc' = r.exc

\* ------------------------------------------------------------- an Acceptor alone
AcceptorOps == {"receive_prepare", "receive_accept", "Acceptor.receive"}

PrepareMsgs == {Prepare(f, p) : f \in ProposerUids, p \in Pids}
AcceptMsgs == {Accept(f[1], f[2], v) : f \in ProposerUids \X Pids, v \in Values}

AcceptorReceivePrepare ==
    /\ op \in {"init"} \cup AcceptorOps
    /\ \E m \in PrepareMsgs :
         LET r == receive_prepare(acc, m)
         IN acc' = r.self /\ Called("receive_prepare", m, r)
    /\ UNCHANGED <<propVars, lrnVars, protocolVars>>

AcceptorReceiveAccept ==
    /\ op \in {"init"} \cup AcceptorOps
    /\ \E m \in AcceptMsgs :
         LET r == receive_accept(acc, m)
         IN acc' = r.self /\ Called("receive_accept", m, r)
    /\ UNCHANGED <<propVars, lrnVars, protocolVars>>

NextAcceptor == AcceptorReceivePrepare \/ AcceptorReceiveAccept

SpecAcceptor == Init /\ [][NextAcceptor]_vars

\* C6. Acceptor monotonicity: over any sequence of receive_prepare and
\* receive_accept calls, promised_id never decreases and accepted_id never
\* decreases, an absent id counting as smaller than every present id.
AcceptorMonotone ==
    [][/\ PidGE(acc'.promised_id, acc.promised_id)
       /\ PidGE(acc'.accepted_id, acc.accepted_id)]_vars

\* a Prepare moved the promise past the accepted id, which stayed
AcceptorMonotoneWitness ==
    /\ op = "receive_prepare"
    /\ ret.type = "Promise"
    /\ acc.accepted_id # None
    /\ PidGT(acc.promised_id, acc.accepted_id)

\* C7. Acceptor promise contract: with promised_id = P, a Promise or Accepted
\* answers only a message whose proposal_id >= P and carries an id >= P; a
\* Prepare or Accept below P is answered by Nack(network_uid, from_uid,
\* proposal_id, P) and leaves promised_id, accepted_id and accepted_value alone.
AcceptorPromiseContract ==
    [][/\ ret'.type \in {"Promise", "Accepted"} =>
            /\ PidGE(arg'.proposal_id, acc.promised_id)
            /\ PidGE(ret'.proposal_id, acc.promised_id)
       /\ PidGT(acc.promised_id, arg'.proposal_id) =>
            /\ ret' = Nack(acc.network_uid, arg'.from_uid, arg'.proposal_id,
                           acc.promised_id)
            /\ acc' = acc]_vars

\* an Accept below the promise was answered by a Nack naming the promise
AcceptorPromiseContractWitness ==
    /\ op = "receive_accept"
    /\ ret.type = "Nack"
    /\ ret.promised_proposal_id = acc.promised_id
    /\ PidGT(acc.promised_id, arg.proposal_id)

\* ------------------------------------------------------------- a Learner alone
AcceptedMsgs == {Accepted(f, p, v) : f \in AcceptorUids, p \in Pids, v \in Values}

LearnerOps == {"Learner", "receive_accepted", "Learner.receive"}

\* Learner(network_uid, quorum_size): a Learner alone is built with any
\* quorum_size from a majority to all acceptors
LearnerNew ==
    /\ op = "init"
    /\ \E q \in QuorumSize..NAcceptors :
         /\ lrn' = LearnerInit(Uid, q)
         /\ Called("Learner", NoMsg, Outcome(lrn', NoMsg, ""))
    /\ UNCHANGED <<histVars, acc, propVars, protocolVars>>

\* Arbitrary Accepteds. An exception ends the process (the assertion of
\* line 332 is fatal).
LearnerReceiveAccepted ==
    /\ op \in LearnerOps
    /\ exc = ""
    /\ \E m \in AcceptedMsgs :
         LET r == receive_accepted(lrn, m)
         IN lrn' = r.self /\ Called("receive_accepted", m, r)
    /\ UNCHANGED <<histVars, acc, propVars, protocolVars>>

NextLearner == LearnerNew \/ LearnerReceiveAccepted

SpecLearner == Init /\ [][NextLearner]_vars

\* Accepteds in which each proposal id carries a single value, as the
\* protocol produces them, with the record of the deliveries up to and
\* including the one that resolves: who carried each proposal id, and the
\* value it carries (the record tells what was delivered: arg is left alone).
LearnerReceiveSingleValued ==
    /\ op \in LearnerOps
    /\ exc = ""
    /\ \E m \in AcceptedMsgs :
         LET r == receive_accepted(lrn, m)
         IN /\ carried[m.proposal_id] \in {NoneVal, m.proposal_value}
            /\ lrn' = r.self
            /\ op' = "receive_accepted" /\ ret' = r.out /\ exc' = r.exc
            /\ IF lrn.final_value = NoneVal
               THEN /\ carriers' = [carriers EXCEPT ![m.proposal_id] =
                                        @ \cup {m.from_uid}]
                    /\ carried' = [carried EXCEPT ![m.proposal_id] =
                                        m.proposal_value]
               ELSE UNCHANGED <<carriers, carried>>
    /\ UNCHANGED <<arg, reported, acc, propVars, protocolVars>>

NextLearnerSingleValued == LearnerNew \/ LearnerReceiveSingleValued

SpecLearnerSingleValued == Init /\ [][NextLearnerSingleValued]_vars

Resolved(l) == l.final_value # NoneVal

\* C3. Quorum correctness: with each proposal id carrying a single value, the
\* Learner has resolved exactly when some proposal id has been carried by
\* Accepted messages from quorum_size distinct from_uids among those delivered
\* so far: it returns its first Resolution on that delivery, never earlier and
\* never later.
QuorumCorrectness ==
    Resolved(lrn) <=>
        \E p \in Pids : Cardinality(carriers[p]) >= lrn.quorum_size

\* the half of C3 that the Learner keeps: it never resolves before a quorum of
\* distinct from_uids has carried one proposal id
QuorumNeverEarlier ==
    Resolved(lrn) => \E p \in Pids : Cardinality(carriers[p]) >= lrn.quorum_size

\* C9. Vote migration: in an unresolved Learner, when acceptor A, recorded for
\* P1, delivers Accepted for P2 > P1 and the delivery does not resolve, P1's
\* retain_count drops by one and A leaves P1's acceptors (the entry is deleted
\* at zero), P2's retain_count rises by one and A joins P2's acceptors; and
\* no entry's retain_count or accept_count exceeds the number of acceptors
\* recorded.
VoteMigration ==
    [][(/\ op' = "receive_accepted"
        /\ exc' = ""
        /\ ~Resolved(lrn)
        /\ ~Resolved(lrn'))
       =>
       LET A == arg'.from_uid
           P1 == LastPn(lrn, A)
           P2 == arg'.proposal_id
           before(p) == IF p \in DOMAIN lrn.proposals
                        THEN lrn.proposals[p].retain_count ELSE 0
       IN /\ (P1 # None /\ PidGT(P2, P1)) =>
                /\ IF before(P1) = 1
                   THEN P1 \notin DOMAIN lrn'.proposals
                   ELSE /\ P1 \in DOMAIN lrn'.proposals
                        /\ lrn'.proposals[P1].retain_count = before(P1) - 1
                        /\ lrn'.proposals[P1].acceptors =
                               lrn.proposals[P1].acceptors \ {A}
                /\ P2 \in DOMAIN lrn'.proposals
                /\ lrn'.proposals[P2].retain_count = before(P2) + 1
                /\ A \in lrn'.proposals[P2].acceptors
          /\ \A p \in DOMAIN lrn'.proposals :
                /\ lrn'.proposals[p].retain_count <= Cardinality(DOMAIN lrn'.acceptors)
                /\ lrn'.proposals[p].accept_count <= Cardinality(DOMAIN lrn'.acceptors)]_vars

\* an acceptor has moved its vote away from an entry that lives on: the entry
\* has counted more acceptors than it retains, and the mover is recorded for a
\* higher proposal id
VoteMigrationWitness ==
    /\ ~Resolved(lrn)
    /\ op = "receive_accepted"
    /\ exc = ""
    /\ arg.proposal_id \in DOMAIN lrn.proposals
    /\ \E p \in DOMAIN lrn.proposals :
          /\ PidGT(arg.proposal_id, p)
          /\ lrn.proposals[p].accept_count = lrn.proposals[p].retain_count + 1
          /\ arg.from_uid \notin lrn.proposals[p].acceptors

\* C10. Resolution is final: once final_value is set, every receive_accepted
\* leaves final_value and final_proposal_id alone, returns
\* Resolution(network_uid, final_value) whatever the message carries, and adds
\* the sender to final_acceptors exactly when the message's proposal_id >=
\* final_proposal_id and its value equals final_value.
ResolutionFinal ==
    [][(Resolved(lrn) /\ op' = "receive_accepted") =>
          /\ lrn'.final_value = lrn.final_value
          /\ lrn'.final_proposal_id = lrn.final_proposal_id
          /\ exc' = ""
          /\ ret' = Resolution(lrn.network_uid, lrn.final_value)
          /\ lrn'.final_acceptors =
                IF /\ PidGE(arg'.proposal_id, lrn.final_proposal_id)
                   /\ arg'.proposal_value = lrn.final_value
                THEN lrn.final_acceptors \cup {arg'.from_uid}
                ELSE lrn.final_acceptors]_vars

\* a resolved Learner answered an Accepted for a higher id and another value
\* with its Resolution, and did not count the sender
ResolutionFinalWitness ==
    /\ Resolved(lrn)
    /\ op = "receive_accepted"
    /\ ret = Resolution(lrn.network_uid, lrn.final_value)
    /\ arg.proposal_value # lrn.final_value
    /\ PidGT(arg.proposal_id, lrn.final_proposal_id)
    /\ arg.from_uid \notin lrn.final_acceptors

\* ------------------------------------------------------------- a Proposer alone
ProposerOps == {"prepare", "propose_value", "observe_proposal",
                "receive_promise", "receive_nack", "Proposer.receive"}

\* Promises and Nacks reach the Proposer named in proposer_uid, the sender of
\* the Prepare or Accept they answer: their proposal_id is one of its own.
\* A Promise as an Acceptor forms it: last_accepted_id and last_accepted_value
\* absent together, or an id >= (1, uid) that is not above the promised
\* proposal_id, with a value (Sent tells which).
PromiseMsgs ==
    {Promise(f, Uid, p, None, NoneVal) : f \in AcceptorUids, p \in OwnPids}
    \cup
    {Promise(x[1], Uid, x[2], x[3], x[4]) :
        x \in {y \in AcceptorUids \X OwnPids \X RoundPids \X Values :
                  y[3][1] >= 1 /\ PidGE(y[2], y[3])}}

\* a Nack as an Acceptor forms it: the promise is above the rejected id
NackMsgs ==
    {Nack(x[1], Uid, x[2], x[3]) :
        x \in {y \in AcceptorUids \X OwnPids \X RoundPids : PidGT(y[3], y[2])}}

PidMax(a, b) == IF PidGT(a, b) THEN a ELSE b

\* A Promise answers a Prepare this Proposer returned.  What an Acceptor
\* reports as accepted was sent in an Accept: under one of this Proposer's ids, the
\* value of the Accept it returned for that id; under another Proposer's id,
\* one value per id.
Sent(m) ==
    /\ m.proposal_id[1] >= 1
    /\ PidLE(m.proposal_id, prop.proposal_id)
    /\ IF m.last_accepted_id = None THEN TRUE
       ELSE IF m.last_accepted_id[2] = Uid
       THEN carried[m.last_accepted_id] = m.last_accepted_value
       ELSE carried[m.last_accepted_id] \in {NoneVal, m.last_accepted_value}

\* the record of the values sent, after a call that returned out and consumed
\* the Promise m (NoMsg: none)
Record(out, m) ==
    LET c1 == IF m.type = "Promise" /\ m.last_accepted_id # None
              THEN [carried EXCEPT ![m.last_accepted_id] = m.last_accepted_value]
              ELSE carried
    IN IF out.type = "Accept"
       THEN [c1 EXCEPT ![out.proposal_id] = out.proposal_value]
       ELSE c1

\* every number stays within n
InRounds(p, n) == p.highest_proposal_id[1] <= n

\* The calls on a Proposer alone. With track, the Promises are those whose
\* accepted value was sent (Sent), and the Promises counted in the round and
\* the values sent are recorded; without, counted and carried are left alone.
ProposerPrepare(track) ==
    /\ op \in {"init"} \cup ProposerOps
    /\ LET r == prepare(prop)
       IN /\ InRounds(r.self, IF track THEN MaxNumber ELSE MaxOwnNumber)
          /\ prop' = r.self
          /\ Called("prepare", NoMsg, r)
          /\ lastPrepared' = r.out.proposal_id
          /\ counted' = {}
    /\ UNCHANGED <<observedMax, acc, lrn, histVars, protocolVars>>

ProposerProposeValue(track) ==
    /\ op \in {"init"} \cup ProposerOps
    /\ \E v \in Values :
         LET r == propose_value(prop, v)
         IN /\ prop' = r.self
            /\ Called("propose_value", NoMsg, r)
            /\ carried' = IF track THEN Record(r.out, NoMsg) ELSE carried
    /\ UNCHANGED <<observedMax, lastPrepared, counted, acc, lrn, carriers, reported,
                   protocolVars>>

ProposerObserveProposal ==
    /\ op \in {"init"} \cup ProposerOps
    /\ \E p \in RoundPids :
         /\ prop' = observe_proposal(prop, p)
         /\ Called("observe_proposal", NoMsg, Outcome(prop', NoMsg, ""))
         /\ observedMax' = PidMax(observedMax, p)
    /\ UNCHANGED <<lastPrepared, counted, acc, lrn, histVars, protocolVars>>

\* a Promise is counted when its sender enters promises_received
ProposerReceivePromise(track) ==
    /\ op \in {"init"} \cup ProposerOps
    /\ \E m \in PromiseMsgs :
         LET r == receive_promise(prop, m)
             \* the call added the sender to promises_received
             isCounted == r.self.promises_received # prop.promises_received
         IN /\ track => Sent(m)
            \* the Promises an Acceptor sends for growing proposal ids report
            \* growing accepted ids
            /\ track /\ isCounted => PidGE(m.last_accepted_id, reported[m.from_uid])
            /\ carried' = IF track THEN Record(r.out, m) ELSE carried
            /\ reported' = IF track /\ isCounted
                           THEN [reported EXCEPT ![m.from_uid] = m.last_accepted_id]
                           ELSE reported
            /\ prop' = r.self
            /\ Called("receive_promise", NoMsg, r)
            /\ observedMax' = PidMax(observedMax, m.proposal_id)
            /\ counted' = IF track /\ isCounted THEN counted \cup {m} ELSE counted
    /\ UNCHANGED <<lastPrepared, acc, lrn, carriers, protocolVars>>

ProposerReceiveNack ==
    /\ op \in {"init"} \cup ProposerOps
    /\ \E m \in NackMsgs :
         LET r == receive_nack(prop, m)
         IN /\ InRounds(r.self, MaxOwnNumber)
            /\ prop' = r.self
            /\ Called("receive_nack", NoMsg, r)
            /\ observedMax' = PidMax(observedMax, m.promised_proposal_id)
            /\ IF r.out.type = "Prepare"
               THEN lastPrepared' = r.out.proposal_id /\ counted' = {}
               ELSE UNCHANGED <<lastPrepared, counted>>
    /\ UNCHANGED <<acc, lrn, histVars, protocolVars>>

NextProposer ==
    \/ ProposerPrepare(FALSE)
    \/ ProposerProposeValue(FALSE)
    \/ ProposerObserveProposal
    \/ ProposerReceivePromise(FALSE)
    \/ ProposerReceiveNack

SpecProposer == Init /\ [][NextProposer]_vars

\* a Proposer that is prepared, given values and shown Promises, with the
\* record of the Promises counted in each round
NextProposerPromises ==
    \/ ProposerPrepare(TRUE)
    \/ ProposerProposeValue(TRUE)
    \/ ProposerReceivePromise(TRUE)

SpecProposerPromises == Init /\ [][NextProposerPromises]_vars

\* C5. Proposal monotonicity: under any interleaving of prepare(),
\* propose_value(), observe_proposal(), receive_promise() and receive_nack(),
\* every Prepare the Proposer produces (by prepare() or inside receive_nack)
\* carries its own network_uid, a number above that of the Prepare before it,
\* and an id above every proposal id it had observed before producing it.
ProposalMonotone ==
    [][ret'.type = "Prepare" =>
          /\ op' \in {"prepare", "receive_nack"}
          /\ ret'.from_uid = prop.network_uid
          /\ ret'.proposal_id[2] = prop.network_uid
          /\ ret'.proposal_id[1] > lastPrepared[1]
          /\ PidGT(ret'.proposal_id, observedMax')]_vars

\* a quorum of Nacks produced a Prepare after an earlier one, above an
\* observed id of another Proposer
ProposalMonotoneWitness ==
    /\ op = "receive_nack"
    /\ ret.type = "Prepare"
    /\ ret.proposal_id = lastPrepared
    /\ ret.proposal_id[1] >= 2
    /\ observedMax # None
    /\ observedMax[2] # prop.network_uid

\* the counted Promises that carry a last_accepted_id
WithAccepted(promises) == {m \in promises : m.last_accepted_id # None}

\* C4. Highest-accepted-wins per round: when receive_promise makes the
\* Proposer leader and returns an Accept, and a Promise counted for the
\* current proposal_id carries a last_accepted_id, the Accept's value is the
\* last_accepted_value of a counted Promise with the largest last_accepted_id.
HighestAcceptedWins ==
    (op = "receive_promise" /\ ret.type = "Accept" /\ WithAccepted(counted) # {}) =>
        \E m \in WithAccepted(counted) :
            /\ \A n \in WithAccepted(counted) :
                  PidGE(m.last_accepted_id, n.last_accepted_id)
            /\ ret.proposal_value = m.last_accepted_value

\* C4, restated on the field: highest_accepted_id, when present, is the
\* largest last_accepted_id of the Promises counted in the current round
HighestAcceptedIdOfRound ==
    prop.highest_accepted_id # None =>
        /\ WithAccepted(counted) # {}
        /\ \A n \in WithAccepted(counted) :
              PidGE(prop.highest_accepted_id, n.last_accepted_id)
        /\ \E m \in WithAccepted(counted) :
              m.last_accepted_id = prop.highest_accepted_id

\* ------------------------------------------- a lone Proposer or Learner
\* One behaviour drives the lone Proposer or the lone Learner.
NextRoles == NextProposer \/ NextLearner

SpecRoles == Init /\ [][NextRoles]_vars

\* the outcome of delivering the Promise m to the Proposer p a second time
SecondPromise(p, m) == receive_promise(receive_promise(p, m).self, m)

\* the outcome of delivering the Accepted m to the Learner l a second time
SecondAccepted(l, m) == receive_accepted(receive_accepted(l, m).self, m)

\* C8. Idempotence: in every reachable Proposer state, for every Promise, and
\* in every reachable Learner state, for every Accepted, a second delivery in
\* a row leaves the state of the first delivery and returns nothing or the
\* message the first delivery returned; the second delivery of a Promise adds
\* nothing to promises_received and returns no Accept.
Idempotence ==
    /\ \A m \in PromiseMsgs :
          /\ SecondPromise(prop, m).self = receive_promise(prop, m).self
          /\ SecondPromise(prop, m).out = NoMsg
    /\ \A m \in AcceptedMsgs :
          /\ SecondAccepted(lrn, m).self = receive_accepted(lrn, m).self
          /\ SecondAccepted(lrn, m).out \in {NoMsg, receive_accepted(lrn, m).out}

\* a Proposer one Promise short of its quorum, with a value: the first
\* delivery of a Promise makes it leader and returns an Accept, the second
\* returns nothing; and the last call counted a Promise
IdempotenceWitness ==
    /\ op = "receive_promise"
    /\ prop.promises_received # NoneSet
    /\ Cardinality(prop.promises_received) = prop.quorum_size - 1
    /\ \E m \in PromiseMsgs :
          /\ receive_promise(prop, m).out.type = "Accept"
          /\ receive_promise(prop, m).self.leader
          /\ SecondPromise(prop, m).out = NoMsg
          /\ SecondPromise(prop, m).self = receive_promise(prop, m).self

\* ------------------------------------------------------------- the protocol
\* Proposers, Acceptors and Learners exchange messages through network, the
\* set of the messages sent so far: a message in it may be delivered at any
\* time, any number of times, or never.
Send(out) == network' = IF out = NoMsg THEN network ELSE network \cup {out}

OfType(t) == {m \in network : m.type = t}

PaxosPrepare(u) ==
    LET r == prepare(proposerOf[u])
    IN /\ InRounds(r.self, MaxRound)
       /\ proposerOf' = [proposerOf EXCEPT ![u] = r.self]
       /\ Send(r.out)
       /\ UNCHANGED <<acceptorOf, learnerOf, proposedValues>>

PaxosProposeValue(u, v) ==
    LET r == propose_value(proposerOf[u], v)
    IN /\ proposerOf' = [proposerOf EXCEPT ![u] = r.self]
       /\ proposedValues' = proposedValues \cup {v}
       /\ Send(r.out)
       /\ UNCHANGED <<acceptorOf, learnerOf>>

\* a Prepare or an Accept reaches any Acceptor
DeliverPrepare(a, m) ==
    LET r == receive_prepare(acceptorOf[a], m)
    IN /\ acceptorOf' = [acceptorOf EXCEPT ![a] = r.self]
       /\ Send(r.out)
       /\ UNCHANGED <<proposerOf, learnerOf, proposedValues>>

DeliverAccept(a, m) ==
    LET r == receive_accept(acceptorOf[a], m)
    IN /\ acceptorOf' = [acceptorOf EXCEPT ![a] = r.self]
       /\ Send(r.out)
       /\ UNCHANGED <<proposerOf, learnerOf, proposedValues>>

\* a Promise or a Nack reaches the Proposer it names
DeliverPromise(m) ==
    LET r == receive_promise(proposerOf[m.proposer_uid], m)
    IN /\ proposerOf' = [proposerOf EXCEPT ![m.proposer_uid] = r.self]
       /\ Send(r.out)
       /\ UNCHANGED <<acceptorOf, learnerOf, proposedValues>>

DeliverNack(m) ==
    LET r == receive_nack(proposerOf[m.proposer_uid], m)
    IN /\ InRounds(r.self, MaxRound)
       /\ proposerOf' = [proposerOf EXCEPT ![m.proposer_uid] = r.self]
       /\ Send(r.out)
       /\ UNCHANGED <<acceptorOf, learnerOf, proposedValues>>

\* an Accepted reaches any Learner
DeliverAccepted(l, m) ==
    LET r == receive_accepted(learnerOf[l], m)
    IN /\ learnerOf' = [learnerOf EXCEPT ![l] = r.self]
       /\ Send(r.out)
       /\ UNCHANGED <<proposerOf, acceptorOf, proposedValues>>

NextPaxos ==
    /\ \/ \E u \in ProposerUids : PaxosPrepare(u)
       \/ \E u \in ProposerUids, v \in Values : PaxosProposeValue(u, v)
       \/ \E a \in PaxosAcceptorUids, m \in OfType("Prepare") : DeliverPrepare(a, m)
       \/ \E a \in PaxosAcceptorUids, m \in OfType("Accept") : DeliverAccept(a, m)
       \/ \E m \in OfType("Promise") : DeliverPromise(m)
       \/ \E m \in OfType("Nack") : DeliverNack(m)
       \/ \E l \in LearnerUids, m \in OfType("Accepted") : DeliverAccepted(l, m)
    /\ UNCHANGED <<prop, acc, lrn, node, callVars, observedMax, lastPrepared, counted,
                   histVars>>

SpecPaxos == Init /\ [][NextPaxos]_vars

Validity ==
    /\ \A m \in network :
          /\ m.type \in {"Accept", "Accepted"} => m.proposal_value \in proposedValues
          /\ m.type = "Resolution" => m.value \in proposedValues
    /\ \A l \in LearnerUids :
          Resolved(learnerOf[l]) => learnerOf[l].final_value \in proposedValues

\* a Learner resolved and sent its Resolution, on the Accept of a Proposer
\* that adopted the value from a Promise: the value it was given itself is
\* another one, or none
ValidityWitness ==
    \E l \in LearnerUids, m \in OfType("Accept") :
        /\ Resolved(learnerOf[l])
        /\ Resolution(l, learnerOf[l].final_value) \in network
        /\ learnerOf[l].final_proposal_id = m.proposal_id
        /\ proposerOf[m.from_uid].highest_accepted_id # None
        /\ Cardinality(proposedValues) > 1

\* ------------------------------------------------- the Proposer's methods
\* what prepare() leaves, called on the Proposer p
PreparePost(p, r) ==
    /\ r.exc = ""
    /\ ~r.self.leader
    /\ r.self.promises_received = {}
    /\ r.self.nacks_received = {}
    /\ r.self.highest_accepted_id = None
    /\ r.self.proposal_id = ProposalID(p.highest_proposal_id[1] + 1, p.network_uid)
    /\ r.self.highest_proposal_id = r.self.proposal_id
    /\ r.out = Prepare(p.network_uid, r.self.proposal_id)
    /\ r.self.proposed_value = p.proposed_value

\* C12. prepare() postcondition: after prepare(), called explicitly or by the
\* receive_nack that completes a quorum of Nacks, leader is false,
\* promises_received and nacks_received are empty, highest_accepted_id is
\* absent, proposal_id is (highest_proposal_id.number before the call + 1,
\* network_uid), highest_proposal_id equals it, the returned Prepare carries
\* it, and proposed_value is unchanged.
PreparePostcondition ==
    /\ PreparePost(prop, prepare(prop))
    /\ \A m \in NackMsgs :
          receive_nack(prop, m).out # NoMsg =>
              PreparePost(observe_proposal(prop, m.promised_proposal_id),
                          receive_nack(prop, m))

\* C12 without the clause on highest_accepted_id
PreparePostExceptAccepted(p, r) ==
    /\ r.exc = ""
    /\ ~r.self.leader
    /\ r.self.promises_received = {}
    /\ r.self.nacks_received = {}
    /\ r.self.highest_accepted_id = p.highest_accepted_id
    /\ r.self.proposal_id = ProposalID(p.highest_proposal_id[1] + 1, p.network_uid)
    /\ r.self.highest_proposal_id = r.self.proposal_id
    /\ r.out = Prepare(p.network_uid, r.self.proposal_id)
    /\ r.self.proposed_value = p.proposed_value

PrepareKeepsAccepted ==
    /\ PreparePostExceptAccepted(prop, prepare(prop))
    /\ \A m \in NackMsgs :
          receive_nack(prop, m).out # NoMsg =>
              PreparePostExceptAccepted(
                  observe_proposal(prop, m.promised_proposal_id),
                  receive_nack(prop, m))

\* propose_value(v) on the Proposer p
ProposeValueContract(p, v) ==
    LET r == propose_value(p, v)
    IN /\ r.exc = ""
       /\ p.proposed_value # NoneVal => r.self = p /\ r.out = NoMsg
       /\ p.proposed_value = NoneVal =>
             /\ r.self.proposed_value = v
             /\ r.self = [p EXCEPT !.proposed_value = v,
                                   !.current_accept_msg = r.self.current_accept_msg]
       /\ IF p.proposed_value = NoneVal /\ p.leader
          THEN /\ r.out = Accept(p.network_uid, p.proposal_id, v)
               /\ r.self.current_accept_msg = r.out
          ELSE /\ r.out = NoMsg
               /\ r.self.current_accept_msg = p.current_accept_msg

\* C13. propose_value(v) changes proposed_value only when it was absent and
\* returns Accept(network_uid, proposal_id, v) exactly when it was absent and
\* leader is true; when a value is present the call returns nothing and
\* changes nothing; and no Accept the Proposer returns has the proposal id of
\* the Accept it returned before with another value.
ProposeValueOnce ==
    /\ [](\A v \in Values : ProposeValueContract(prop, v))
    /\ [][(ret'.type = "Accept" /\ prop.current_accept_msg # NoMsg
            /\ prop.current_accept_msg.proposal_id = ret'.proposal_id)
          => ret'.proposal_value = prop.current_accept_msg.proposal_value]_vars

\* a leader without a value was given one and returned the Accept; a second
\* propose_value with another value would be ignored
ProposeValueOnceWitness ==
    /\ op = "propose_value"
    /\ ret.type = "Accept"
    /\ prop.leader
    /\ ret = Accept(prop.network_uid, prop.proposal_id, prop.proposed_value)
    /\ \E v \in Values :
          v # prop.proposed_value /\ propose_value(prop, v) = Outcome(prop, NoMsg, "")

\* the Nack m is for the current proposal_id of the Proposer p, which has
\* prepared, and its sender brings the senders of such Nacks to quorum_size
CompletesNackQuorum(p, m) ==
    /\ p.nacks_received # NoneSet
    /\ m.proposal_id = p.proposal_id
    /\ Cardinality(p.nacks_received \cup {m.from_uid}) = p.quorum_size

\* C14. Nack-driven restart: the receive_nack that brings the distinct
\* senders of Nacks for the current proposal_id to quorum_size, whether the
\* Proposer is leader or not, returns a Prepare with an id above the abandoned
\* proposal_id and above every promised_proposal_id of those Nacks, and the
\* Proposer is not leader afterwards; every other receive_nack returns
\* nothing.
NackRestart ==
    \A m \in NackMsgs :
        LET r == receive_nack(prop, m)
        IN /\ r.exc = ""
           /\ IF CompletesNackQuorum(prop, m)
              THEN /\ r.out.type = "Prepare"
                   /\ r.out = Prepare(prop.network_uid, r.self.proposal_id)
                   /\ PidGT(r.out.proposal_id, prop.proposal_id)
                   /\ PidGT(r.out.proposal_id, m.promised_proposal_id)
                   /\ PidGT(r.out.proposal_id, observedMax)
                   /\ ~r.self.leader
              ELSE r.out = NoMsg

\* a leader one Nack short of a quorum for its proposal_id, after a Nack that
\* was counted: the next Nack of another sender restarts it
NackRestartWitness ==
    /\ op = "receive_nack"
    /\ ret = NoMsg
    /\ prop.leader
    /\ Cardinality(prop.nacks_received) = prop.quorum_size - 1
    /\ \E m \in NackMsgs :
          /\ CompletesNackQuorum(prop, m)
          /\ receive_nack(prop, m).out.type = "Prepare"
          /\ ~receive_nack(prop, m).self.leader

\* the fields a late reply leaves alone
SameRound(p, q) ==
    /\ q.leader = p.leader
    /\ q.proposal_id = p.proposal_id
    /\ q.proposed_value = p.proposed_value
    /\ q.highest_accepted_id = p.highest_accepted_id
    /\ q.promises_received = p.promises_received
    /\ q.nacks_received = p.nacks_received

\* the whole Proposer after a late reply that showed it the proposal id seen
Filtered(p, r, seen) ==
    /\ r.exc = ""
    /\ r.out = NoMsg
    /\ SameRound(p, r.self)
    /\ r.self = [p EXCEPT !.highest_proposal_id = PidMax(@, seen)]

\* C15. Late replies are filtered: a Promise or a Nack whose proposal_id is
\* not the Proposer's current proposal_id, and any Nack received before the
\* first prepare(), returns nothing and leaves leader, proposal_id,
\* proposed_value, highest_accepted_id, promises_received and nacks_received
\* unchanged; only highest_proposal_id may change, to the observed id when
\* that is larger.
LateRepliesFiltered ==
    /\ \A m \in PromiseMsgs :
          m.proposal_id # prop.proposal_id =>
              Filtered(prop, receive_promise(prop, m), m.proposal_id)
    /\ \A m \in NackMsgs :
          (m.proposal_id # prop.proposal_id \/ prop.nacks_received = NoneSet) =>
              Filtered(prop, receive_nack(prop, m), m.promised_proposal_id)

\* a Proposer in its second round or later, with a Promise counted, shown a
\* Promise and a Nack of the round it abandoned
LateRepliesFilteredWitness ==
    /\ prop.proposal_id[1] >= 2
    /\ prop.promises_received # NoneSet /\ prop.promises_received # {}
    /\ \E m \in PromiseMsgs :
          /\ m.proposal_id[1] >= 1
          /\ PidGT(prop.proposal_id, m.proposal_id)
          /\ m.last_accepted_id # None
          /\ receive_promise(prop, m).self = prop
    /\ \E m \in NackMsgs :
          /\ m.proposal_id[1] >= 1
          /\ PidGT(prop.proposal_id, m.proposal_id)
          /\ receive_nack(prop, m).self = prop

\* ------------------------------------------------- the Learner's records
RECURSIVE SumRetain(_, _)
\* the sum of retain_count over the entries of proposals with a key in pids
SumRetain(proposals, pids) ==
    IF pids = {} THEN 0
    ELSE LET p == CHOOSE x \in pids : TRUE
         IN proposals[p].retain_count + SumRetain(proposals, pids \ {p})

\* C16. Learner bookkeeping: in every reachable unresolved Learner state,
\* each entry (pid, ps) of proposals has retain_count = |ps.acceptors| >= 1,
\* ps.acceptors is the set of the uids u with acceptors[u] = pid, retain_count
\* <= accept_count < quorum_size, and the retain_counts add up to the number
\* of keys of acceptors.
LearnerBookkeeping ==
    (lrn.final_value = NoneVal /\ exc = "") =>
        /\ \A pid \in DOMAIN lrn.proposals :
              LET ps == lrn.proposals[pid]
              IN /\ ps.retain_count = Cardinality(ps.acceptors)
                 /\ ps.retain_count >= 1
                 /\ ps.acceptors = {u \in DOMAIN lrn.acceptors : lrn.acceptors[u] = pid}
                 /\ ps.retain_count <= ps.accept_count
                 /\ ps.accept_count < lrn.quorum_size
        /\ SumRetain(lrn.proposals, DOMAIN lrn.proposals)
               = Cardinality(DOMAIN lrn.acceptors)

\* an unresolved Learner with two entries, one of them counted more often
\* than it is retained, after a delivery that moved a vote
LearnerBookkeepingWitness ==
    /\ op = "receive_accepted"
    /\ exc = ""
    /\ lrn.final_value = NoneVal
    /\ Cardinality(DOMAIN lrn.proposals) >= 2
    /\ \E pid \in DOMAIN lrn.proposals :
          lrn.proposals[pid].accept_count > lrn.proposals[pid].retain_count

\* C20. Quorum in final_acceptors: when a Learner resolves, final_acceptors
\* holds at least quorum_size acceptor uids, each the sender of an Accepted
\* for final_proposal_id, also when a counted acceptor had moved its vote to a
\* higher proposal id before.
FinalAcceptorsQuorum ==
    [][(lrn.final_value = NoneVal /\ lrn'.final_value # NoneVal) =>
          /\ Cardinality(lrn'.final_acceptors) >= lrn'.quorum_size
          /\ lrn'.final_acceptors \subseteq carriers'[lrn'.final_proposal_id]]_vars

\* C20, as the code has it: final_acceptors holds the senders for
\* final_proposal_id that had not moved their vote
FinalAcceptorsRetained ==
    [][(lrn.final_value = NoneVal /\ lrn'.final_value # NoneVal) =>
          /\ lrn'.final_acceptors # {}
          /\ Cardinality(lrn'.final_acceptors) <= lrn'.quorum_size
          /\ lrn'.final_acceptors \subseteq carriers'[lrn'.final_proposal_id]
          /\ Cardinality(carriers'[lrn'.final_proposal_id]) >= lrn'.quorum_size]_vars

\* C19. One value per proposal id: in every execution of the protocol, all
\* Accept and Accepted messages with the same proposal_id carry the same
\* value, and no Accepted that can be delivered to a Learner fails the
\* assertion of receive_accepted (or raises at all).
OneValuePerId ==
    /\ \A m1 \in network, m2 \in network :
          (/\ m1.type \in {"Accept", "Accepted"}
           /\ m2.type \in {"Accept", "Accepted"}
           /\ m1.proposal_id = m2.proposal_id)
          => m1.proposal_value = m2.proposal_value
    /\ \A l \in LearnerUids, m \in OfType("Accepted") :
          receive_accepted(learnerOf[l], m).exc = ""

\* two Accepts with different values are out, and an unresolved Learner that
\* holds an entry for a proposal id is about to compare its value with that
\* of an Accepted of another acceptor
OneValuePerIdWitness ==
    /\ Cardinality({m.proposal_value : m \in OfType("Accept")}) > 1
    /\ \E l \in LearnerUids, m \in OfType("Accepted") :
          /\ ~Resolved(learnerOf[l])
          /\ m.proposal_id \in DOMAIN learnerOf[l].proposals
          /\ m.from_uid \notin learnerOf[l].proposals[m.proposal_id].acceptors

\* ------------------------------------------- the objects, through receive()
ResolutionMsgs == {Resolution(f, v) : f \in LearnerUids, v \in Values}

AllMsgs ==
    PrepareMsgs \cup AcceptMsgs \cup PromiseMsgs \cup NackMsgs
    \cup AcceptedMsgs \cup ResolutionMsgs

NodeOps == {"PaxosInstance.prepare", "PaxosInstance.receive"}

\* the largest proposal id observed, after the object observed those of msg
Observed(max, class, msg) ==
    IF msg.type = "Nack" THEN PidMax(max, msg.promised_proposal_id)
    ELSE IF msg.type = "Promise"
            \/ (class = "PaxosInstance" /\ msg.type \in {"Prepare", "Accept"})
    THEN PidMax(max, msg.proposal_id)
    ELSE max

ReceiveProposer ==
    /\ op \in {"init"} \cup ProposerOps
    /\ \E m \in AllMsgs :
         LET r == receive("Proposer", prop, m)
         IN /\ InRounds(r.self, MaxOwnNumber)
            /\ prop' = r.self
            /\ Called("Proposer.receive", NoMsg, r)
            /\ observedMax' = Observed(observedMax, "Proposer", m)
            /\ IF r.out.type = "Prepare"
               THEN lastPrepared' = r.out.proposal_id /\ counted' = {}
               ELSE UNCHANGED <<lastPrepared, counted>>
    /\ UNCHANGED <<acc, lrn, histVars, protocolVars>>

ReceiveAcceptor ==
    /\ op \in {"init"} \cup AcceptorOps
    /\ \E m \in AllMsgs :
         LET r == receive("Acceptor", acc, m)
         IN acc' = r.self /\ Called("Acceptor.receive", NoMsg, r)
    /\ UNCHANGED <<propVars, lrnVars, protocolVars>>

\* InvalidMessageError leaves the Learner running; any other exception ends it
ReceiveLearner ==
    /\ op \in LearnerOps
    /\ exc \in {"", "InvalidMessageError"}
    /\ \E m \in AllMsgs :
         LET r == receive("Learner", lrn, m)
         IN lrn' = r.self /\ Called("Learner.receive", NoMsg, r)
    /\ UNCHANGED <<histVars, acc, propVars, protocolVars>>

\* The PaxosInstance is shown the Prepares and Accepts of other nodes, the
\* Promises of Acceptors that accepted nothing, and the messages it has no
\* handler for.
NodeMsgs ==
    PrepareMsgs \cup AcceptMsgs \cup ResolutionMsgs
    \cup {m \in PromiseMsgs : m.last_accepted_id = None}

NodePrepare ==
    /\ op \in {"init"} \cup NodeOps
    /\ LET r == prepare(node)
       IN /\ InRounds(r.self, MaxOwnNumber)
          /\ node' = r.self
          /\ Called("PaxosInstance.prepare", NoMsg, r)
          /\ lastPrepared' = r.out.proposal_id
    /\ UNCHANGED <<prop, acc, lrn, observedMax, counted, histVars, proposerOf,
                   acceptorOf, learnerOf, network, proposedValues>>

ReceiveNode ==
    /\ op \in {"init"} \cup NodeOps
    /\ \E m \in NodeMsgs :
         LET r == receive("PaxosInstance", node, m)
         IN /\ InRounds(r.self, MaxOwnNumber)
            /\ node' = r.self
            /\ Called("PaxosInstance.receive", NoMsg, r)
            /\ observedMax' = Observed(observedMax, "PaxosInstance", m)
            /\ lastPrepared' = IF r.out.type = "Prepare" THEN r.out.proposal_id
                               ELSE lastPrepared
    /\ UNCHANGED <<prop, acc, lrn, counted, histVars, proposerOf, acceptorOf,
                   learnerOf, network, proposedValues>>

NextReceive ==
    \/ ProposerPrepare(FALSE)
    \/ ProposerProposeValue(FALSE)
    \/ ReceiveProposer
    \/ ReceiveAcceptor
    \/ LearnerNew
    \/ ReceiveLearner
    \/ NodePrepare
    \/ ReceiveNode

SpecReceive == Init /\ [][NextReceive]_vars

\* the message classes a class has no receive_* method for
Unhandled(class) ==
    CASE class = "Proposer" -> {"Prepare", "Accept", "Accepted", "Resolution"}
      [] class = "Acceptor" -> {"Nack", "Promise", "Accepted", "Resolution"}
      [] class = "Learner" -> {"Prepare", "Nack", "Promise", "Accept", "Resolution"}
      [] class = "PaxosInstance" -> {"Resolution"}

\* receive(msg) on the object self of the class fails loudly, or dispatches
FailsLoudly(class, self, msg) ==
    IF msg.type \in Unhandled(class)
    THEN receive(class, self, msg) = Outcome(self, NoMsg, "InvalidMessageError")
    ELSE receive(class, self, msg).exc # "InvalidMessageError"

\* C11. Dispatch failure: receive(msg) on a role without a handler for the
\* class of msg (a Prepare on a Proposer or a Learner, a Promise on an
\* Acceptor, a Resolution on any role and on the PaxosInstance) raises
\* InvalidMessageError, returns no message and leaves the object unchanged;
\* no message is dropped silently.
DispatchFailure ==
    \A m \in AllMsgs :
        /\ FailsLoudly("Proposer", prop, m)
        /\ FailsLoudly("Acceptor", acc, m)
        /\ FailsLoudly("Learner", lrn, m)
        /\ FailsLoudly("PaxosInstance", node, m)

\* a PaxosInstance that has promised and prepared was handed a message it
\* has no handler for
DispatchFailureWitness ==
    /\ op = "PaxosInstance.receive"
    /\ exc = "InvalidMessageError"
    /\ ret = NoMsg
    /\ node.promised_id # None
    /\ node.proposal_id[1] >= 1

\* ------------------------------------------------- the composite
\* the Acceptor fields of a PaxosInstance
AcceptorPart(n) ==
    AcceptorInit(n.network_uid, n.promised_id, n.accepted_id, n.accepted_value)

\* what an Acceptor alone, in the state of the Acceptor part of n, does with m
Standalone(n, m) ==
    IF m.type = "Prepare" THEN receive_prepare(AcceptorPart(n), m)
    ELSE receive_accept(AcceptorPart(n), m)

\* the largest proposal id the PaxosInstance observed (observedMax follows the
\* object the behaviour drives)
NodeObserved == IF op \in {"init"} \cup NodeOps THEN observedMax ELSE None

\* C17. Composite piggyback: a Prepare or an Accept received by a
\* PaxosInstance raises highest_proposal_id to the message's proposal_id when
\* that is larger, whatever its Acceptor part answers; the reply and the
\* Acceptor fields are those of an Acceptor alone; leader, proposal_id,
\* promises_received and every other field are untouched; and the next
\* prepare() yields an id above every proposal id the node has seen.
Piggyback ==
    /\ \A m \in PrepareMsgs \cup AcceptMsgs :
          LET r == receive("PaxosInstance", node, m)
              a == Standalone(node, m)
          IN /\ r.exc = ""
             /\ r.out = a.out
             /\ AcceptorPart(r.self) = a.self
             /\ r.self = [node EXCEPT
                            !.highest_proposal_id = PidMax(@, m.proposal_id),
                            !.promised_id = a.self.promised_id,
                            !.accepted_id = a.self.accepted_id,
                            !.accepted_value = a.self.accepted_value]
             /\ PidGT(prepare(r.self).out.proposal_id, m.proposal_id)
    /\ PidGT(prepare(node).out.proposal_id, NodeObserved)
    /\ PidGT(prepare(node).out.proposal_id, node.promised_id)
    /\ PidGT(prepare(node).out.proposal_id, node.accepted_id)

\* a PaxosInstance that leads its own round answered a Nack from a promise
\* above its proposal_id, which it observed
PiggybackWitness ==
    /\ op = "PaxosInstance.receive"
    /\ ret.type = "Nack"
    /\ node.leader
    /\ node.proposal_id[1] >= 1
    /\ PidGT(node.promised_id, node.proposal_id)
    /\ node.highest_proposal_id = node.promised_id
    /\ observedMax = node.promised_id

\* ------------------------------------------------- one Proposer, alone
\* The Proposer prop, the Acceptors acceptorOf[1..NAcceptors] and the Learner
\* lrn, all fresh; network holds the messages emitted and not yet delivered,
\* each with the object it is for: <<class, uid, msg>>.
InitSolo ==
    /\ prop = ProposerInit(Uid, QuorumSize)
    /\ acc = AcceptorInit(Uid, None, None, NoneVal)
    /\ lrn = LearnerInit(Uid, QuorumSize)
    /\ node = PaxosInstanceInit(Uid, QuorumSize, None, None, NoneVal)
    /\ op = "init"
    /\ arg = NoMsg
    /\ ret = NoMsg
    /\ exc = ""
    /\ observedMax = None
    /\ lastPrepared = None
    /\ counted = {}
    /\ carriers = [p \in OwnPids |-> {}]
    /\ carried = [p \in Pids \cup RoundPids \cup OwnPids |-> NoneVal]
    /\ reported = [a \in AcceptorUids |-> None]
    /\ proposerOf = [u \in ProposerUids |-> ProposerInit(u, QuorumSize)]
    /\ acceptorOf = [u \in AcceptorUids |-> AcceptorInit(u, None, None, NoneVal)]
    /\ learnerOf = [u \in LearnerUids |-> LearnerInit(u, QuorumSize)]
    /\ network = {}
    /\ proposedValues = {}

\* who a message returned by a handler is for: Prepare and Accept go to every
\* Acceptor, Promise and Nack to the Proposer named in them, Accepted to the
\* Learner
Routed(out) ==
    IF out.type \in {"Prepare", "Accept"}
    THEN {<<"Acceptor", a, out>> : a \in AcceptorUids}
    ELSE IF out.type \in {"Promise", "Nack"}
    THEN {<<"Proposer", out.proposer_uid, out>>}
    ELSE IF out.type = "Accepted"
    THEN {<<"Learner", Uid, out>>}
    ELSE {}

\* the proposal id of the only round
SoloPid == ProposalID(1, Uid)

\* every message with its recipient that the round can emit
SoloParcels ==
    UNION {Routed(m) :
             m \in {Prepare(Uid, SoloPid)}
                   \cup {Accept(Uid, SoloPid, v) : v \in Values}
                   \cup {Promise(a, Uid, SoloPid, None, NoneVal) : a \in AcceptorUids}
                   \cup {Promise(x[1], Uid, SoloPid, SoloPid, x[2]) :
                            x \in AcceptorUids \X Values}
                   \cup {Nack(a, Uid, SoloPid, SoloPid) : a \in AcceptorUids}
                   \cup {Accepted(x[1], SoloPid, x[2]) :
                            x \in AcceptorUids \X Values}}

soloRest == <<acc, node, observedMax, lastPrepared, counted, carried, reported,
              proposerOf, learnerOf>>

\* the single prepare()
SoloPrepare ==
    /\ prop.current_prepare_msg = NoMsg
    /\ LET r == prepare(prop)
       IN /\ prop' = r.self
          /\ Called("prepare", NoMsg, r)
          /\ network' = network \cup Routed(r.out)
    /\ UNCHANGED <<lrn, acceptorOf, carriers, proposedValues, soloRest>>

\* the single propose_value(v)
SoloProposeValue ==
    /\ proposedValues = {}
    /\ \E v \in Values :
         LET r == propose_value(prop, v)
         IN /\ prop' = r.self
            /\ Called("propose_value", NoMsg, r)
            /\ network' = network \cup Routed(r.out)
            /\ proposedValues' = {v}
    /\ UNCHANGED <<lrn, acceptorOf, carriers, soloRest>>

\* a pending message is delivered, once, and the reply is emitted
SoloDeliverAcceptor(p) ==
    /\ p \in network
    /\ p[1] = "Acceptor"
    /\ LET r == receive("Acceptor", acceptorOf[p[2]], p[3])
       IN /\ acceptorOf' = [acceptorOf EXCEPT ![p[2]] = r.self]
          /\ Called("Acceptor.receive", NoMsg, r)
          /\ network' = (network \ {p}) \cup Routed(r.out)
    /\ UNCHANGED <<prop, lrn, carriers, proposedValues, soloRest>>

SoloDeliverProposer(p) ==
    /\ p \in network
    /\ p[1] = "Proposer"
    /\ LET r == receive("Proposer", prop, p[3])
       IN /\ prop' = r.self
          /\ Called("Proposer.receive", NoMsg, r)
          /\ network' = (network \ {p}) \cup Routed(r.out)
    /\ UNCHANGED <<lrn, acceptorOf, carriers, proposedValues, soloRest>>

SoloDeliverLearner(p) ==
    /\ p \in network
    /\ p[1] = "Learner"
    /\ LET r == receive("Learner", lrn, p[3])
       IN /\ lrn' = r.self
          /\ Called("Learner.receive", NoMsg, r)
          /\ network' = (network \ {p}) \cup Routed(r.out)
          /\ carriers' = [carriers EXCEPT ![p[3].proposal_id] =
                              @ \cup {p[3].from_uid}]
    /\ UNCHANGED <<prop, acceptorOf, proposedValues, soloRest>>

SoloDeliver(p) ==
    SoloDeliverAcceptor(p) \/ SoloDeliverProposer(p) \/ SoloDeliverLearner(p)

NextSolo ==
    \/ SoloPrepare
    \/ SoloProposeValue
    \/ \E p \in SoloParcels : SoloDeliverAcceptor(p)
    \/ \E p \in SoloParcels : SoloDeliverProposer(p)
    \/ \E p \in SoloParcels : SoloDeliverLearner(p)

\* prepare() and propose_value(v) are issued, and every message emitted is
\* eventually delivered
SpecSolo ==
    /\ InitSolo
    /\ [][NextSolo]_vars
    /\ WF_vars(SoloPrepare)
    /\ WF_vars(SoloProposeValue)
    /\ \A p \in SoloParcels : WF_vars(SoloDeliver(p))

\* no message is emitted that SoloParcels leaves out
SoloParcelsCover == network \subseteq SoloParcels

\* the Learner returned Resolution(v), v the value proposed
Resolves ==
    /\ op = "Learner.receive"
    /\ \E v \in Values : proposedValues = {v} /\ ret = Resolution(Uid, v)

\* C18. Solo-round progress: one Proposer, NAcceptors (three) fresh Acceptors,
\* quorum_size QuorumSize (2), one Learner, one prepare() and one
\* propose_value(v) in either order relative to the Promises, every emitted
\* message eventually delivered: the Learner eventually returns Resolution(v),
\* and it does so on the Accepted that completes the quorum, the second it
\* receives (and on none before).
SoloProgress ==
    /\ <>Resolves
    /\ [][carriers' # carriers =>
            /\ Cardinality(carriers'[SoloPid]) < QuorumSize => ret' = NoMsg
            /\ Cardinality(carriers'[SoloPid]) >= QuorumSize => Resolves']_vars

\* the Learner resolved on the Accepted that completed the quorum, while
\* another Acceptor has not yet seen the Prepare
SoloProgressWitness ==
    /\ Resolves
    /\ Cardinality(carriers[SoloPid]) = QuorumSize
    /\ prop.leader
    /\ \E a \in AcceptorUids : acceptorOf[a].promised_id = None
====
